---- MODULE Spec2Model ----
(***************************************************************************)
(* PrettyCodeCopy: the copy command of src/src/extension.ts, the language  *)
(* dispatcher of src/src/lang/index.ts and the Rust context provider       *)
(* (rustTreeSitterContext.ts, src/unnamed/part_001 lines 118-462).         *)
(*                                                                         *)
(* Strings are sequences of one-character strings, so that lastIndexOf,    *)
(* slice, split, join and indexOf are computed as the code computes them.  *)
(* Indices are 1-based; 0 stands for JavaScript's -1 ("not found").        *)
(***************************************************************************)
EXTENDS Integers, Sequences, FiniteSets, TLC

\* ---------------------------------------------------------------- bounds
MaxVersion == 2
MaxInvocations == 2
MaxCopies == 1
MaxSegments == 3
MaxDepth == 3

\* ------------------------------------------------------- string helpers
Absent == <<"undefined">>

StartsWithAt(s, sub, i) ==
    /\ i >= 1
    /\ i + Len(sub) - 1 <= Len(s)
    /\ SubSeq(s, i, i + Len(sub) - 1) = sub

EndsWith(s, sub) == StartsWithAt(s, sub, Len(s) - Len(sub) + 1)

Max(S) == CHOOSE x \in S : \A y \in S : y <= x
Min(S) == CHOOSE x \in S : \A y \in S : x <= y

LastIndexOf(s, sub) ==
    LET hits == {i \in 1..Len(s) : StartsWithAt(s, sub, i)}
    IN  IF hits = {} THEN 0 ELSE Max(hits)

IndexOf(s, sub) ==
    LET hits == {i \in 1..Len(s) : StartsWithAt(s, sub, i)}
    IN  IF hits = {} THEN 0 ELSE Min(hits)

Includes(s, sub) == IndexOf(s, sub) # 0

\* String.prototype.trim on the one whitespace character the model uses.
RECURSIVE TrimLeft(_)
TrimLeft(s) == IF s # <<>> /\ Head(s) = " " THEN TrimLeft(Tail(s)) ELSE s

RECURSIVE TrimRight(_)
TrimRight(s) ==
    IF s # <<>> /\ s[Len(s)] = " " THEN TrimRight(SubSeq(s, 1, Len(s) - 1)) ELSE s

Trim(s) == TrimRight(TrimLeft(s))

\* fileName.replace(/\\/g, '/')
NormalizeSeparators(s) == [i \in 1..Len(s) |-> IF s[i] = "\\" THEN "/" ELSE s[i]]

\* rel.split('/'): the pieces between the separators, empty pieces included.
RECURSIVE Split(_, _)
Split(s, sep) ==
    LET i == IndexOf(s, <<sep>>)
    IN  IF i = 0 THEN <<s>>
        ELSE <<SubSeq(s, 1, i - 1)>> \o Split(SubSeq(s, i + 1, Len(s)), sep)

\* parts.join('::')
RECURSIVE Join(_, _)
Join(parts, sep) ==
    IF parts = <<>> THEN <<>>
    ELSE IF Len(parts) = 1 THEN parts[1]
    ELSE parts[1] \o sep \o Join(Tail(parts), sep)

ModSep == <<":", ":">>
SrcMarker == <<"/", "s", "r", "c", "/">>
RsExt == <<".", "r", "s">>
LibStem == <<"l", "i", "b">>
MainStem == <<"m", "a", "i", "n">>
ModSuffix == <<"/", "m", "o", "d">>

\* ------------------------------------------ path-based module inference
\* The fallback without its lib/main rule.
inferRustModuleFromPathKeepingRoots(fileName) ==
    LET normalized == NormalizeSeparators(fileName)
        srcIndex == LastIndexOf(normalized, SrcMarker)
        rel0 == SubSeq(normalized, srcIndex + Len(SrcMarker), Len(normalized))
        rel1 == IF EndsWith(rel0, RsExt)
                THEN SubSeq(rel0, 1, Len(rel0) - Len(RsExt)) ELSE rel0
        rel2 == IF EndsWith(rel1, ModSuffix)
                THEN SubSeq(rel1, 1, Len(rel1) - Len(ModSuffix)) ELSE rel1
    IN  IF srcIndex = 0 THEN Absent
        ELSE IF rel2 = <<>> THEN Absent
        ELSE Join(Split(rel2, "/"), ModSep)

inferRustModuleFromPath(fileName) ==
    LET normalized == NormalizeSeparators(fileName)
        srcIndex == LastIndexOf(normalized, SrcMarker)
        rel0 == SubSeq(normalized, srcIndex + Len(SrcMarker), Len(normalized))
        rel1 == IF EndsWith(rel0, RsExt)
                THEN SubSeq(rel0, 1, Len(rel0) - Len(RsExt)) ELSE rel0
        rel2 == IF EndsWith(rel1, ModSuffix)
                THEN SubSeq(rel1, 1, Len(rel1) - Len(ModSuffix)) ELSE rel1
    IN  IF srcIndex = 0 THEN Absent
        ELSE IF rel1 = LibStem \/ rel1 = MainStem THEN Absent
        ELSE IF rel2 = <<>> THEN Absent
        ELSE Join(Split(rel2, "/"), ModSep)

\* ------------------------------------------------------ name extraction
\* stripGenericSuffix that only trims.
stripGenericSuffixKeepingArguments(t) == Trim(t)

stripGenericSuffix(t) ==
    LET angleIndex == IndexOf(t, <<"<">>)
    IN  IF angleIndex = 0 THEN Trim(t) ELSE Trim(SubSeq(t, 1, angleIndex - 1))

\* A syntax node: its type, its parent (0: none), the text of its 'name' and
\* 'type' fields (Absent when the field is missing) and its named children.
FirstChildOfType(kids, ty) ==
    LET hits == {i \in 1..Len(kids) : kids[i].type = ty}
    IN  IF hits = {} THEN Absent ELSE kids[Min(hits)].text

extractFunctionName(fnNode) ==
    IF fnNode.name # Absent THEN fnNode.name
    ELSE FirstChildOfType(fnNode.kids, "identifier")

NoNode == [type |-> "none"]

extractTypeNameFromImplOrType(implNode, typeNode) ==
    IF implNode # NoNode /\ implNode.typ # Absent
        THEN stripGenericSuffix(implNode.typ)
    ELSE IF typeNode # NoNode
        THEN IF typeNode.name # Absent THEN typeNode.name
             ELSE FirstChildOfType(typeNode.kids, "type_identifier")
    ELSE Absent

\* The names pushed from the first index up (innermost first).
ModNamesInnermostFirst(modNodes, i) ==
    LET named == SelectSeq(modNodes, LAMBDA n : n.name # Absent)
    IN  [k \in 1..Len(named) |-> named[k].name]

\* modNodes is innermost first; the names are pushed from the last index down.
RECURSIVE ModNames(_, _)
ModNames(modNodes, i) ==
    IF i = 0 THEN <<>>
    ELSE (IF modNodes[i].name # Absent THEN <<modNodes[i].name>> ELSE <<>>)
         \o ModNames(modNodes, i - 1)

buildModulePathFromModNodes(modNodes) ==
    IF Len(modNodes) = 0 THEN Absent
    ELSE LET names == ModNames(modNodes, Len(modNodes))
         IN  IF Len(names) = 0 THEN Absent ELSE Join(names, ModSep)

\* ----------------------------------------------------------- documents
\* Three open documents: two Rust files and one Python file.
Docs == {"d1", "d2", "d3"}

languageId(d) == IF d = "d3" THEN "python" ELSE "rust"

\* doc.fileName: d1 is /src/a/b.rs, d2 is C:\src\main.rs, d3 is /x/t.py
fileName(d) ==
    CASE d = "d1" -> <<"/", "s", "r", "c", "/", "a", "/", "b", ".", "r", "s">>
      [] d = "d2" -> <<"C", ":", "\\", "s", "r", "c", "\\", "m", "a", "i", "n", ".", "r", "s">>
      [] OTHER    -> <<"/", "x", "/", "t", ".", "p", "y">>

\* The contents a document can have, and the cursor positions of a request.
Texts == {"T1", "T2"}
Positions == {"inner", "outer"}

Node(ty, parent, name, typ, kids) ==
    [type |-> ty, parent |-> parent, name |-> name, typ |-> typ, kids |-> kids]

\* T1:  mod a { mod b { impl T<U> { fn f() {} fn g() { x } } } }
\* T2:  struct S; fn h() { }
SourceNodes(t) ==
    IF t = "T1" THEN
      << Node("source_file", 0, Absent, Absent, <<>>),
         Node("mod_item", 1, <<"a">>, Absent, <<>>),
         Node("mod_item", 2, <<"b">>, Absent, <<>>),
         Node("impl_item", 3, Absent, <<"T", "<", "U", ">">>, <<>>),
         Node("function_item", 4, <<"f">>, Absent, <<>>),
         Node("function_item", 4, <<"g">>, Absent, <<>>),
         Node("identifier", 6, Absent, Absent, <<>>) >>
    ELSE
      << Node("source_file", 0, Absent, Absent, <<>>),
         Node("struct_item", 1, <<"S">>, Absent, <<>>),
         Node("function_item", 1, <<"h">>, Absent, <<>>),
         Node("block", 3, Absent, Absent, <<>>) >>

\* root.namedDescendantForPosition: the index of the node at a position.
SourceAt(t) ==
    IF t = "T1" THEN [q \in Positions |-> IF q = "inner" THEN 7 ELSE 1]
    ELSE [q \in Positions |-> IF q = "inner" THEN 4 ELSE 2]

\* parser.parse(text): the tree of a text is its nodes and their positions.
Parse(t) == [nodes |-> SourceNodes(t), at |-> SourceAt(t)]

NoTree == [nodes |-> <<>>]

\* ------------------------------------------------- context extraction
\* The climb of extractContextFromNodeChain from node i to the root; acc holds
\* fnNode, implNode, typeNode (first one met wins) and modNodes (all of them).
\* The climb in which a later (outer) node replaces the recorded one.
RECURSIVE ClimbOutermostWins(_, _, _)
ClimbOutermostWins(nodes, i, acc) ==
    IF i = 0 THEN acc
    ELSE LET cur == nodes[i]
             next ==
               CASE cur.type = "function_item" -> [acc EXCEPT !.fnNode = cur]
                 [] cur.type = "impl_item" -> [acc EXCEPT !.implNode = cur]
                 [] cur.type \in {"struct_item", "enum_item", "trait_item"} ->
                      [acc EXCEPT !.typeNode = cur]
                 [] cur.type = "mod_item" ->
                      [acc EXCEPT !.modNodes = Append(@, cur)]
                 [] OTHER -> acc
         IN  ClimbOutermostWins(nodes, cur.parent, next)

RECURSIVE Climb(_, _, _)
Climb(nodes, i, acc) ==
    IF i = 0 THEN acc
    ELSE LET cur == nodes[i]
             next ==
               CASE cur.type = "function_item" ->
                      IF acc.fnNode = NoNode THEN [acc EXCEPT !.fnNode = cur] ELSE acc
                 [] cur.type = "impl_item" ->
                      IF acc.implNode = NoNode THEN [acc EXCEPT !.implNode = cur] ELSE acc
                 [] cur.type \in {"struct_item", "enum_item", "trait_item"} ->
                      IF acc.typeNode = NoNode THEN [acc EXCEPT !.typeNode = cur] ELSE acc
                 [] cur.type = "mod_item" ->
                      [acc EXCEPT !.modNodes = Append(@, cur)]
                 [] OTHER -> acc
         IN  Climb(nodes, cur.parent, next)

extractContextFromNodeChain(nodes, i) ==
    LET raw == Climb(nodes, i,
                 [fnNode |-> NoNode, implNode |-> NoNode, typeNode |-> NoNode,
                  modNodes |-> <<>>])
    IN  [functionName |-> IF raw.fnNode # NoNode
                          THEN extractFunctionName(raw.fnNode) ELSE Absent,
         typeName |-> extractTypeNameFromImplOrType(raw.implNode, raw.typeNode),
         modulePath |-> buildModulePathFromModNodes(raw.modNodes),
         rawNodes |-> raw]

\* inferRustModuleFromPath(doc.fileName), tabulated per document.
moduleOfPath == [d \in Docs |-> inferRustModuleFromPath(fileName(d))]

\* rawNodes and extra when they are undefined.
NoRawNodes == [modNodes |-> Absent]
NoExtra == [absent |-> TRUE]

\* JavaScript truthiness of an optional string.
Truthy(s) == s # Absent /\ s # <<>>

\* buildResult that qualifies a function name that is already qualified.
buildResultQualifyingAgain(d, functionName, typeName, modulePath, rawNodes) ==
    [functionName |->
        IF Truthy(functionName) /\ Truthy(typeName)
        THEN typeName \o ModSep \o functionName ELSE functionName,
     className |-> typeName,
     moduleName |-> IF modulePath # Absent THEN modulePath
                    ELSE moduleOfPath[d],
     extra |-> NoExtra]

buildResult(d, functionName, typeName, modulePath, rawNodes) ==
    [functionName |->
        IF Truthy(functionName) /\ Truthy(typeName) /\ ~Includes(functionName, ModSep)
        THEN typeName \o ModSep \o functionName ELSE functionName,
     className |-> typeName,
     moduleName |-> IF modulePath # Absent THEN modulePath
                    ELSE moduleOfPath[d],
     extra |-> IF rawNodes # NoRawNodes
               THEN [hasImpl |-> IF rawNodes.implNode # NoNode
                                 THEN "true" ELSE "false",
                     hasType |-> IF rawNodes.typeNode # NoNode
                                 THEN "true" ELSE "false",
                     modDepth |-> ToString(Len(rawNodes.modNodes))]
               ELSE NoExtra]

\* The {} of getContextInfo and the { moduleName } of getContext's catch.
EmptyContext ==
    [functionName |-> Absent, className |-> Absent, moduleName |-> Absent,
     extra |-> NoExtra]

FallbackContext(d) ==
    [EmptyContext EXCEPT !.moduleName = moduleOfPath[d]]

\* ---------------------------------------------------------------- state
Procs == {"p1", "p2"}
NoDoc == "none"
NoParser == 0
GitLookups == {"gitRoot", "branch", "shortSha", "commitTime", "remote"}

VARIABLES
    version,          \* doc.version of each document
    text,             \* doc.getText() of each document
    textAt,           \* history: the text each document had at each revision
    lastTree,         \* history: the revision of each document's last getTree
                      \* call and the tree it returned (NoTree: it threw)
    parser,           \* RustAstContextProvider.parser: NoParser, or the n-th
                      \* instance that new Parser() made
    languageLoaded,   \* RustAstContextProvider.languageLoaded
    treeCache,        \* RustAstContextProvider.treeCache, as its set of entries
    hasLanguage,      \* the Parser instances on which setLanguage was called
    initCalls,        \* how many times Parser.init() was called
    loadCalls,        \* how many times Parser.Language.load() was called
    loadFailed,       \* a grammar load has been rejected at some point
    invocations,      \* commands and requests started so far
    pc,               \* where each invocation is suspended
    caller,           \* who awaits getContextInfo: the copy handler or a direct caller
    doc,              \* the document of the invocation
    lparser,          \* getTree's local 'parser'
    tree,             \* getContext's local 'tree'
    info,             \* the ContextInfo the request resolved to
    fault,            \* the fault getContext caught in this request, if any
    parsed,           \* this request has called parser.parse()
    editorCtx,        \* the handler's ctx: selectedText, startLine, endLine
    gitPending,       \* the git commands still running
    gitFailed,        \* the git commands that failed
    output,           \* the text handed to clipboard.writeText
    clipboard,        \* the clipboard's content
    clipWrites,       \* how many times clipboard.writeText was called
    notice,           \* the notification the invocation has shown
    requestedAt,      \* history: the revision the document had when the
                      \* request was made (kept by SpecObs only)
    arg,              \* the argument a function is applied to
    out               \* the value the function returned

parserVars == <<parser, languageLoaded, hasLanguage, initCalls, loadCalls,
                loadFailed>>
auxVars == <<requestedAt, arg, out>>
progVars == <<version, text, textAt, lastTree, parser, languageLoaded,
              treeCache, hasLanguage, initCalls, loadCalls, loadFailed,
              invocations, pc, caller, doc, lparser, tree, info, fault,
              parsed, editorCtx, gitPending, gitFailed, output, clipboard,
              clipWrites, notice, requestedAt>>
copyVars == <<editorCtx, gitPending, gitFailed, output, clipboard, clipWrites, notice>>
vars == <<version, text, textAt, lastTree, parser, languageLoaded, treeCache, hasLanguage,
          initCalls, loadCalls, loadFailed, invocations, pc, caller,
          doc, lparser, tree, info, fault, parsed, editorCtx, gitPending,
          gitFailed, output, clipboard, clipWrites, notice, requestedAt,
          arg, out>>

NoEntry == [key |-> NoDoc]
NoReturn == [version |-> 0, tree |-> NoTree]
NoCtx == [selectedText |-> "none"]
NoOutput == [body |-> "none"]
NoArg == [kind |-> "none"]
NoOut == [done |-> FALSE]

\* Map.get and Map.set on the cache's entries.
MapGet(cache, key) ==
    IF \E e \in cache : e.key = key
    THEN CHOOSE e \in cache : e.key = key
    ELSE NoEntry

\* Mutation: set adds the entry without replacing the key's old one.
MapSetKeepingOld(cache, key, value) ==
    cache \cup {[key |-> key, version |-> value.version, tree |-> value.tree]}

\* Mutation: a cache of one entry, a store drops the other keys.
MapSetSingleEntry(cache, key, value) ==
    {[key |-> key, version |-> value.version, tree |-> value.tree]}

MapSet(cache, key, value) ==
    {e \in cache : e.key # key}
      \cup {[key |-> key, version |-> value.version, tree |-> value.tree]}

InitProgram ==
    /\ version = [d \in Docs |-> 1]
    /\ text = [d \in Docs |-> IF d = "d2" THEN "T2" ELSE "T1"]
    /\ textAt = [d \in Docs |-> <<text[d]>>]
    /\ lastTree = [d \in Docs |-> NoReturn]
    /\ parser = NoParser
    /\ languageLoaded = FALSE
    /\ treeCache = {}
    /\ hasLanguage = {}
    /\ initCalls = 0
    /\ loadCalls = 0
    /\ loadFailed = FALSE
    /\ invocations = 0
    /\ pc = [p \in Procs |-> "idle"]
    /\ caller = [p \in Procs |-> "none"]
    /\ doc = [p \in Procs |-> NoDoc]
    /\ lparser = [p \in Procs |-> NoParser]
    /\ tree = [p \in Procs |-> NoTree]
    /\ info = [p \in Procs |-> EmptyContext]
    /\ fault = [p \in Procs |-> "none"]
    /\ parsed = [p \in Procs |-> FALSE]
    /\ editorCtx = [p \in Procs |-> NoCtx]
    /\ gitPending = [p \in Procs |-> {}]
    /\ gitFailed = [p \in Procs |-> {}]
    /\ output = [p \in Procs |-> NoOutput]
    /\ clipboard = NoOutput
    /\ clipWrites = 0
    /\ notice = [p \in Procs |-> "none"]
    /\ requestedAt = [p \in Procs |-> 0]

Init == InitProgram /\ arg = NoArg /\ out = NoOut

\* -------------------------------------------------------- the documents
\* The host applies an edit: the revision goes up by one and the text changes.
Edit(d, t) ==
    /\ version[d] < MaxVersion
    /\ t # text[d]
    /\ version' = [version EXCEPT ![d] = @ + 1]
    /\ text' = [text EXCEPT ![d] = t]
    /\ textAt' = [textAt EXCEPT ![d] = Append(@, t)]
    /\ UNCHANGED <<lastTree, parser, languageLoaded, treeCache, hasLanguage,
                   initCalls, loadCalls, loadFailed, parsed, invocations, pc,
                   caller, doc, lparser, tree, info, fault>>
    /\ UNCHANGED copyVars
    /\ UNCHANGED auxVars

\* ------------------------------------------------ the context provider
\* Mutation: no fast path, an initialized provider loads the grammar again.
ensureParserWithoutFastPath(p) ==
    IF parser = NoParser THEN
        /\ pc' = [pc EXCEPT ![p] = "init"]
        /\ initCalls' = initCalls + 1
        /\ UNCHANGED <<loadCalls, lparser>>
    ELSE
        /\ pc' = [pc EXCEPT ![p] = "load"]
        /\ loadCalls' = loadCalls + 1
        /\ UNCHANGED <<initCalls, lparser>>

\* ensureParser up to its first await: the fast path returns this.parser, the
\* others call Parser.init() or Parser.Language.load() and suspend.
ensureParser(p) ==
    IF parser # NoParser /\ languageLoaded THEN
        /\ pc' = [pc EXCEPT ![p] = "ensured"]
        /\ lparser' = [lparser EXCEPT ![p] = parser]
        /\ UNCHANGED <<initCalls, loadCalls>>
    ELSE IF parser = NoParser THEN
        /\ pc' = [pc EXCEPT ![p] = "init"]
        /\ initCalls' = initCalls + 1
        /\ UNCHANGED <<loadCalls, lparser>>
    ELSE
        /\ pc' = [pc EXCEPT ![p] = "load"]
        /\ loadCalls' = loadCalls + 1
        /\ UNCHANGED <<initCalls, lparser>>

\* Mutation: the dispatcher sends every document to the Rust strategy.
getContextInfoWithoutDispatch(p, d) ==
    /\ doc' = [doc EXCEPT ![p] = d]
    /\ ensureParser(p)
    /\ UNCHANGED <<version, text, textAt, lastTree, parser, languageLoaded,
                   treeCache, hasLanguage, loadFailed, parsed, tree, fault, info>>

\* getContextInfo(doc, position): dispatch on the language id; a Rust document
\* goes through getRustContextAST, getContext and getTree into ensureParser.
\* The position is an argument nothing reads before getContext's node lookup:
\* it is drawn there.
getContextInfo(p, d) ==
    /\ doc' = [doc EXCEPT ![p] = d]
    /\ IF languageId(d) = "rust" THEN
          /\ ensureParser(p)
          /\ UNCHANGED info
       ELSE
          /\ pc' = [pc EXCEPT ![p] = "ctx"]
          /\ info' = [info EXCEPT ![p] = EmptyContext]
          /\ UNCHANGED <<initCalls, loadCalls, lparser>>
    /\ UNCHANGED <<version, text, textAt, lastTree, parser, languageLoaded, treeCache, hasLanguage,
                   loadFailed, parsed, tree, fault>>

\* A caller other than the copy handler asks for the context of a document.
Request(p, d) ==
    /\ pc[p] = "idle"
    /\ invocations < MaxInvocations
    /\ invocations' = invocations + 1
    /\ caller' = [caller EXCEPT ![p] = "api"]
    /\ getContextInfo(p, d)
    /\ UNCHANGED copyVars
    /\ UNCHANGED <<arg, out>>

\* Mutation: the catch resolves to {} and drops the module of the path.
CatchWithoutModule(p, f) ==
    /\ pc' = [pc EXCEPT ![p] = "ctx"]
    /\ info' = [info EXCEPT ![p] = EmptyContext]
    /\ fault' = [fault EXCEPT ![p] = f]
    /\ lparser' = [lparser EXCEPT ![p] = NoParser]
    /\ tree' = [tree EXCEPT ![p] = NoTree]

\* The catch of getContext: the request resolves to { moduleName }.
Catch(p, f) ==
    /\ pc' = [pc EXCEPT ![p] = "ctx"]
    /\ info' = [info EXCEPT ![p] = FallbackContext(doc[p])]
    /\ fault' = [fault EXCEPT ![p] = f]
    /\ lparser' = [lparser EXCEPT ![p] = NoParser]
    /\ tree' = [tree EXCEPT ![p] = NoTree]

\* ensureParser resumes after await Parser.init().
InitDone(p, ok) ==
    /\ pc[p] = "init"
    /\ IF ok THEN
          /\ parser' = parser + 1
          /\ IF ~languageLoaded THEN
                /\ loadCalls' = loadCalls + 1
                /\ pc' = [pc EXCEPT ![p] = "load"]
                /\ UNCHANGED lparser
             ELSE
                /\ pc' = [pc EXCEPT ![p] = "ensured"]
                /\ lparser' = [lparser EXCEPT ![p] = parser']
                /\ UNCHANGED loadCalls
          /\ UNCHANGED <<info, fault, tree>>
       ELSE
          /\ Catch(p, "init")
          /\ UNCHANGED <<parser, loadCalls>>
    /\ UNCHANGED <<version, text, textAt, lastTree, languageLoaded, treeCache,
                   hasLanguage, initCalls,
                   loadFailed, parsed, invocations, caller, doc>>
    /\ UNCHANGED copyVars
    /\ UNCHANGED auxVars

\* ensureParser resumes after await Parser.Language.load(wasmPath).
LoadDone(p, ok) ==
    /\ pc[p] = "load"
    /\ IF ok THEN
          /\ hasLanguage' = hasLanguage \cup {parser}
          /\ languageLoaded' = TRUE
          /\ pc' = [pc EXCEPT ![p] = "ensured"]
          /\ lparser' = [lparser EXCEPT ![p] = parser]
          /\ UNCHANGED <<info, fault, tree, loadFailed>>
       ELSE
          /\ Catch(p, "load")
          /\ loadFailed' = TRUE
          /\ UNCHANGED <<hasLanguage, languageLoaded>>
    /\ UNCHANGED <<version, text, textAt, lastTree, parser, treeCache, initCalls, loadCalls,
                   parsed, invocations, caller, doc>>
    /\ UNCHANGED copyVars
    /\ UNCHANGED auxVars

\* Mutation: the cache answers from any entry of the key.
CacheHitAtAnyVersion(cached, current) == cached # NoEntry

\* Mutation: the cache never answers.
CacheHitNever(cached, current) == FALSE

\* cached && cached.version === doc.version
CacheHit(cached, current) == cached # NoEntry /\ cached.version = current

\* Mutation: the entry is stored before the parse, so a parse that throws
\* leaves an entry without a tree behind.
getTreeStoringFirst(p, ok) ==
    /\ pc[p] = "ensured"
    /\ LET key == doc[p]
           cached == MapGet(treeCache, key)
       IN  IF CacheHit(cached, version[key]) THEN
              /\ tree' = [tree EXCEPT ![p] = cached.tree]
              /\ pc' = [pc EXCEPT ![p] = "tree"]
              /\ lparser' = [lparser EXCEPT ![p] = NoParser]
              /\ UNCHANGED <<treeCache, parsed, info, fault>>
           ELSE
              /\ parsed' = [parsed EXCEPT ![p] = TRUE]
              /\ IF ok /\ lparser[p] \in hasLanguage THEN
                    /\ treeCache' = MapSet(treeCache, key,
                          [version |-> version[key], tree |-> Parse(text[key])])
                    /\ tree' = [tree EXCEPT ![p] = Parse(text[key])]
                    /\ pc' = [pc EXCEPT ![p] = "tree"]
                    /\ lparser' = [lparser EXCEPT ![p] = NoParser]
                    /\ UNCHANGED <<info, fault>>
                 ELSE
                    /\ Catch(p, "parse")
                    /\ treeCache' = MapSet(treeCache, key,
                          [version |-> version[key], tree |-> NoTree])
    /\ lastTree' = [lastTree EXCEPT ![doc[p]] =
                       [version |-> version[doc[p]], tree |-> tree'[p]]]
    /\ UNCHANGED <<version, text, textAt, invocations, caller, doc>>
    /\ UNCHANGED parserVars
    /\ UNCHANGED copyVars
    /\ UNCHANGED auxVars

\* getTree resumes after await this.ensureParser(): the cache lookup, the parse
\* and the cache store run without suspending. parse throws when the parser
\* has no language, and may throw otherwise.
getTreeBody(p, ok) ==
    /\ pc[p] = "ensured"
    /\ LET key == doc[p]
           cached == MapGet(treeCache, key)
       IN  IF CacheHit(cached, version[key]) THEN
              /\ tree' = [tree EXCEPT ![p] = cached.tree]
              /\ pc' = [pc EXCEPT ![p] = "tree"]
              /\ lparser' = [lparser EXCEPT ![p] = NoParser]
              /\ UNCHANGED <<treeCache, parsed, info, fault>>
           ELSE
              /\ parsed' = [parsed EXCEPT ![p] = TRUE]
              /\ IF ok /\ lparser[p] \in hasLanguage THEN
                    /\ treeCache' = MapSet(treeCache, key,
                          [version |-> version[key], tree |-> Parse(text[key])])
                    /\ tree' = [tree EXCEPT ![p] = Parse(text[key])]
                    /\ pc' = [pc EXCEPT ![p] = "tree"]
                    /\ lparser' = [lparser EXCEPT ![p] = NoParser]
                    /\ UNCHANGED <<info, fault>>
                 ELSE
                    /\ Catch(p, "parse")
                    /\ UNCHANGED treeCache
    /\ lastTree' = [lastTree EXCEPT ![doc[p]] =
                       [version |-> version[doc[p]], tree |-> tree'[p]]]
    /\ UNCHANGED <<version, text, textAt, invocations, caller, doc>>
    /\ UNCHANGED parserVars
    /\ UNCHANGED copyVars

getTree(p, ok) == getTreeBody(p, ok) /\ UNCHANGED auxVars

\* getContext resumes after await this.getTree(doc): node lookup, the climb
\* and buildResult; a throw anywhere lands in the catch.
getContext(p, q, ok) ==
    /\ pc[p] = "tree"
    /\ IF ok THEN
          LET node == tree[p].at[q]
              ctx == extractContextFromNodeChain(tree[p].nodes, node)
          IN  /\ info' = [info EXCEPT ![p] =
                    IF node = 0
                    THEN buildResult(doc[p], Absent, Absent, Absent, NoRawNodes)
                    ELSE buildResult(doc[p], ctx.functionName, ctx.typeName,
                                     ctx.modulePath, ctx.rawNodes)]
              /\ pc' = [pc EXCEPT ![p] = "ctx"]
              /\ tree' = [tree EXCEPT ![p] = NoTree]
              /\ UNCHANGED <<fault, lparser>>
       ELSE Catch(p, "extract")
    /\ UNCHANGED <<version, text, textAt, lastTree, treeCache, parsed, invocations, caller, doc>>
    /\ UNCHANGED parserVars
    /\ UNCHANGED copyVars
    /\ UNCHANGED auxVars

\* The direct caller's await getContextInfo(...) resumes with the result.
Return(p) ==
    /\ pc[p] = "ctx"
    /\ caller[p] = "api"
    /\ pc' = [pc EXCEPT ![p] = "idle"]
    /\ caller' = [caller EXCEPT ![p] = "none"]
    /\ doc' = [doc EXCEPT ![p] = NoDoc]
    /\ info' = [info EXCEPT ![p] = EmptyContext]
    /\ fault' = [fault EXCEPT ![p] = "none"]
    /\ parsed' = [parsed EXCEPT ![p] = FALSE]
    /\ UNCHANGED <<version, text, textAt, lastTree, treeCache, invocations, lparser, tree>>
    /\ UNCHANGED parserVars
    /\ UNCHANGED copyVars
    /\ UNCHANGED auxVars

\* ----------------------------------------------------- the copy command
\* editor.selection: empty (a bare cursor), or a range of zero-based lines.
Selections ==
    { [isEmpty |-> TRUE, startLine |-> 0, endLine |-> 0],
      [isEmpty |-> FALSE, startLine |-> 0, endLine |-> 1] }

lineCount(t) == IF t = "T1" THEN 3 ELSE 2

\* document.getText() and document.getText(selection)
WholeText(t) == [of |-> t, from |-> -1, to |-> -1]
RangeText(t, sel) == [of |-> t, from |-> sel.startLine, to |-> sel.endLine]

\* getEditorContext that takes the range from the selection in both branches.
getEditorContextOfCursor(d, sel) ==
    [doc |-> d, selection |-> sel,
     selectedText |-> IF ~sel.isEmpty THEN RangeText(text[d], sel)
                      ELSE WholeText(text[d]),
     startLine |-> sel.startLine + 1, endLine |-> sel.endLine + 1]

\* The context keeps the editor's selection next to the document.
getEditorContext(d, sel) ==
    IF ~sel.isEmpty
    THEN [doc |-> d, selection |-> sel, selectedText |-> RangeText(text[d], sel),
          startLine |-> sel.startLine + 1, endLine |-> sel.endLine + 1]
    ELSE [doc |-> d, selection |-> sel, selectedText |-> WholeText(text[d]),
          startLine |-> 1, endLine |-> lineCount(text[d])]

\* A git helper's result: stdout of the command, or '' when exec failed.
GitValue(g, failed) == IF g \in failed THEN <<>> ELSE <<g>>

\* resolveGitInfo after Promise.all; the remote is an https URL, and
\* buildRepoFileUrl needs the base, the sha and the repo-relative path.
resolveGitInfo(failed) ==
    LET gitRoot == GitValue("gitRoot", failed)
        shortSha == GitValue("shortSha", failed)
        remote == GitValue("remote", failed)
    IN  [gitRoot |-> gitRoot,
         branch |-> GitValue("branch", failed),
         shortSha |-> shortSha,
         commitTime |-> GitValue("commitTime", failed),
         remote |-> remote,
         repoUrl |-> IF remote = <<>> \/ shortSha = <<>> \/ gitRoot = <<>>
                     THEN <<>> ELSE <<"url">>]

\* getSettings(): the defaults, or a choice of git and structure headers.
SettingsChoices ==
    { [filePathHeaderIds |-> <<"source", "lines">>,
       codeStructureHeaderIds |-> <<>>, plainText |-> FALSE],
      [filePathHeaderIds |-> <<"gitBranch", "bogus">>,
       codeStructureHeaderIds |-> <<"module">>, plainText |-> TRUE] }

\* The value a header provider hands to fmt ('' for an id with no provider;
\* workspace, file, path and time render like source and are left out).
filePathValue(id, ctx, git) ==
    CASE id = "source" -> fileName(ctx.doc)
      [] id = "lines" -> <<ToString(ctx.startLine), "-", ToString(ctx.endLine)>>
      [] id = "language" -> <<languageId(ctx.doc)>>
      [] id = "repoLink" -> git.repoUrl
      [] id = "gitBranch" -> git.branch
      [] id = "gitShortSha" -> git.shortSha
      [] id = "gitLastCommitTime" -> git.commitTime
      [] OTHER -> <<>>

codeStructureValue(id, codeCtx) ==
    LET v == CASE id = "function" -> codeCtx.functionName
               [] id = "class" -> codeCtx.className
               [] id = "module" -> codeCtx.moduleName
               [] OTHER -> Absent
    IN  IF Truthy(v) THEN v ELSE <<>>

\* renderSelected with the formatter: one line per selected id, in the order
\* of the setting, lines with an empty value dropped.
RECURSIVE renderSelected(_, _)
renderSelected(ids, value) ==
    IF ids = <<>> THEN <<>>
    ELSE LET v == value[Head(ids)]
         IN  (IF Trim(v) = <<>> THEN <<>> ELSE << <<Head(ids), v>> >>)
             \o renderSelected(Tail(ids), value)

\* buildOutput: the header lines, then the body (fenced unless plainText).
buildOutput(headerLines, plainText, lang, bodyText) ==
    [headers |-> headerLines, plainText |-> plainText,
     fence |-> IF plainText THEN <<>> ELSE lang, body |-> bodyText]

\* Steps 6 and 7 of the handler.
CopyOutput(ctx, git, codeCtx, settings) ==
    LET fpIds == {settings.filePathHeaderIds[i] :
                     i \in 1..Len(settings.filePathHeaderIds)}
        csIds == {settings.codeStructureHeaderIds[i] :
                     i \in 1..Len(settings.codeStructureHeaderIds)}
        fp == [id \in fpIds |-> filePathValue(id, ctx, git)]
        cs == [id \in csIds |-> codeStructureValue(id, codeCtx)]
    IN  buildOutput(renderSelected(settings.filePathHeaderIds, fp)
                      \o renderSelected(settings.codeStructureHeaderIds, cs),
                    settings.plainText, <<languageId(ctx.doc)>>, ctx.selectedText)

\* The command handler up to its first await: without an active editor it
\* shows the error and returns; otherwise it reads the editor and starts the
\* five git commands of resolveGitInfo.
\* Mutation: the handler without its check of the active editor.
CopyCommandWithoutEditorCheck(p, hasEditor, d, sel) ==
    /\ pc[p] = "idle"
    /\ invocations < MaxCopies
    /\ invocations' = invocations + 1
    /\ notice' = [notice EXCEPT ![p] = "none"]
    /\ pc' = [pc EXCEPT ![p] = "git"]
    /\ caller' = [caller EXCEPT ![p] = "copy"]
    /\ doc' = [doc EXCEPT ![p] = d]
    /\ editorCtx' = [editorCtx EXCEPT ![p] = getEditorContext(d, sel)]
    /\ gitPending' = [gitPending EXCEPT ![p] = GitLookups]
    /\ gitFailed' = [gitFailed EXCEPT ![p] = {}]
    /\ UNCHANGED <<version, text, textAt, lastTree, treeCache, parsed, lparser, tree, info,
                   fault, output, clipboard, clipWrites>>
    /\ UNCHANGED parserVars
    /\ UNCHANGED auxVars

CopyCommand(p, hasEditor, d, sel) ==
    /\ pc[p] = "idle"
    /\ invocations < MaxCopies
    /\ invocations' = invocations + 1
    /\ IF ~hasEditor THEN
          /\ notice' = [notice EXCEPT ![p] = "No active editor"]
          /\ UNCHANGED <<pc, caller, doc, editorCtx, gitPending, gitFailed>>
       ELSE
          /\ notice' = [notice EXCEPT ![p] = "none"]
          /\ pc' = [pc EXCEPT ![p] = "git"]
          /\ caller' = [caller EXCEPT ![p] = "copy"]
          /\ doc' = [doc EXCEPT ![p] = d]
          /\ editorCtx' = [editorCtx EXCEPT ![p] = getEditorContext(d, sel)]
          /\ gitPending' = [gitPending EXCEPT ![p] = GitLookups]
          /\ gitFailed' = [gitFailed EXCEPT ![p] = {}]
    /\ UNCHANGED <<version, text, textAt, lastTree, treeCache, parsed, lparser, tree, info,
                   fault, output, clipboard, clipWrites>>
    /\ UNCHANGED parserVars
    /\ UNCHANGED auxVars

\* Mutation: a git helper without its catch, a failed command ends the
\* handler with a rejection.
GitDoneRejecting(p, g, ok) ==
    /\ pc[p] = "git"
    /\ g \in gitPending[p]
    /\ IF ok THEN
          /\ gitPending' = [gitPending EXCEPT ![p] = @ \ {g}]
          /\ UNCHANGED <<pc, caller, doc, editorCtx>>
       ELSE
          /\ gitPending' = [gitPending EXCEPT ![p] = {}]
          /\ pc' = [pc EXCEPT ![p] = "idle"]
          /\ caller' = [caller EXCEPT ![p] = "none"]
          /\ doc' = [doc EXCEPT ![p] = NoDoc]
          /\ editorCtx' = [editorCtx EXCEPT ![p] = NoCtx]
    /\ UNCHANGED <<version, text, textAt, lastTree, treeCache, parsed, invocations,
                   lparser, tree, info, fault, gitFailed, output, clipboard,
                   clipWrites, notice>>
    /\ UNCHANGED parserVars
    /\ UNCHANGED auxVars

\* One git command ends: its helper returns stdout, or '' from its catch.
GitDone(p, g, ok) ==
    /\ pc[p] = "git"
    /\ g \in gitPending[p]
    /\ gitPending' = [gitPending EXCEPT ![p] = @ \ {g}]
    /\ gitFailed' = [gitFailed EXCEPT ![p] = IF ok THEN @ ELSE @ \cup {g}]
    /\ UNCHANGED <<version, text, textAt, lastTree, treeCache, parsed, invocations, pc, caller, doc,
                   lparser, tree, info, fault, editorCtx, output, clipboard,
                   clipWrites, notice>>
    /\ UNCHANGED parserVars
    /\ UNCHANGED auxVars

\* Mutation: the context is requested without awaiting resolveGitInfo.
CopyContextWithoutAwait(p) ==
    /\ pc[p] = "git"
    /\ getContextInfo(p, doc[p])
    /\ UNCHANGED <<invocations, caller>>
    /\ UNCHANGED copyVars
    /\ UNCHANGED auxVars

\* Promise.all has resolved: the handler reads the settings and the cursor
\* (the selection's start at that moment) and calls getContextInfo.
CopyContext(p) ==
    /\ pc[p] = "git"
    /\ gitPending[p] = {}
    /\ getContextInfo(p, doc[p])
    /\ UNCHANGED <<invocations, caller>>
    /\ UNCHANGED copyVars
    /\ UNCHANGED auxVars

\* await getContextInfo(...) resumes: render, buildOutput, and the call of
\* clipboard.writeText(output). The settings, read before the await and used
\* only here, are drawn here.
CopyWrite(p, settings) ==
    /\ pc[p] = "ctx"
    /\ caller[p] = "copy"
    /\ output' = [output EXCEPT ![p] =
          CopyOutput(editorCtx[p], resolveGitInfo(gitFailed[p]), info[p], settings)]
    /\ clipWrites' = clipWrites + 1
    /\ pc' = [pc EXCEPT ![p] = "clip"]
    /\ UNCHANGED <<version, text, textAt, lastTree, treeCache, invocations, caller,
                   doc, lparser, tree, info, fault, parsed, editorCtx, gitPending,
                   gitFailed, clipboard, notice>>
    /\ UNCHANGED parserVars
    /\ UNCHANGED auxVars

\* The clipboard write settles: on success the text is on the clipboard and
\* the handler shows the notification; a rejected write ends the handler.
ClipDone(p, ok) ==
    /\ pc[p] = "clip"
    /\ IF ok THEN
          /\ clipboard' = output[p]
          /\ notice' = [notice EXCEPT ![p] = "Copied code with context!"]
       ELSE UNCHANGED <<clipboard, notice>>
    /\ output' = [output EXCEPT ![p] = NoOutput]
    /\ pc' = [pc EXCEPT ![p] = "idle"]
    /\ caller' = [caller EXCEPT ![p] = "none"]
    /\ doc' = [doc EXCEPT ![p] = NoDoc]
    /\ info' = [info EXCEPT ![p] = EmptyContext]
    /\ fault' = [fault EXCEPT ![p] = "none"]
    /\ editorCtx' = [editorCtx EXCEPT ![p] = NoCtx]
    /\ gitFailed' = [gitFailed EXCEPT ![p] = {}]
    /\ parsed' = [parsed EXCEPT ![p] = FALSE]
    /\ UNCHANGED <<version, text, textAt, lastTree, treeCache, invocations,
                   lparser, tree, gitPending, clipWrites>>
    /\ UNCHANGED parserVars
    /\ UNCHANGED auxVars

\* ------------------------------------------------------- specifications
EngineStep ==
    \/ \E p \in Procs, ok \in BOOLEAN : InitDone(p, ok)
    \/ \E p \in Procs, ok \in BOOLEAN : LoadDone(p, ok)
    \/ \E p \in Procs, ok \in BOOLEAN : getTree(p, ok)
    \/ \E p \in Procs, q \in Positions, ok \in BOOLEAN : getContext(p, q, ok)
    \/ \E p \in Procs : Return(p)

\* Concurrent context requests against the provider, with edits in between.
Next ==
    \/ \E d \in Docs, t \in Texts : Edit(d, t)
    \/ \E p \in Procs, d \in Docs : Request(p, d) /\ UNCHANGED requestedAt
    \/ EngineStep

Spec == Init /\ [][Next]_vars

\* Requests one at a time: a request starts when no other is pending.
AllIdle == \A r \in Procs : pc[r] = "idle"

SeqRequest(p, d) == AllIdle /\ Request(p, d) /\ UNCHANGED requestedAt

NextSeq ==
    \/ \E d \in Docs, t \in Texts : Edit(d, t)
    \/ \E p \in Procs, d \in Docs : SeqRequest(p, d)
    \/ EngineStep

SpecSeq == Init /\ [][NextSeq]_vars

\* Requests with the revision of their document at the time of the call on
\* record. An edit is a task of the host: it runs while a request waits for
\* the engine or the grammar, never between the continuations that follow one
\* another as microtasks (ensureParser's return, getTree, getContext).
ObservedRequest(p, d) ==
    /\ Request(p, d)
    /\ requestedAt' = [requestedAt EXCEPT ![p] = version[d]]

ObservedEdit(d, t) ==
    /\ \A p \in Procs : pc[p] \notin {"ensured", "tree"}
    /\ Edit(d, t)

NextObs ==
    \/ \E d \in Docs, t \in Texts : ObservedEdit(d, t)
    \/ \E p \in Procs, d \in Docs : ObservedRequest(p, d)
    \/ EngineStep

SpecObs == Init /\ [][NextObs]_vars

\* Requests with the successful parses on record: per document the revision
\* of the last parse that returned a tree, and whether a parse has returned a
\* tree for a revision that already had one.
NoParses == [kind |-> "parses", lastParsed |-> [d \in Docs |-> 0], repeated |-> FALSE]

CountedGetTree(p, ok) ==
    /\ getTreeBody(p, ok)
    /\ LET key == doc[p]
           invoked == ~CacheHit(MapGet(treeCache, key), version[key])
       IN  arg' = IF invoked /\ pc'[p] = "tree"
                  THEN [arg EXCEPT !.lastParsed[key] = version[key],
                                   !.repeated = @ \/ arg.lastParsed[key] = version[key]]
                  ELSE arg
    /\ UNCHANGED <<requestedAt, out>>

InitParse == InitProgram /\ arg = NoParses /\ out = NoOut

NextParse ==
    \/ \E d \in Docs, t \in Texts : Edit(d, t)
    \/ \E p \in Procs, d \in Docs : Request(p, d) /\ UNCHANGED requestedAt
    \/ \E p \in Procs, ok \in BOOLEAN : InitDone(p, ok)
    \/ \E p \in Procs, ok \in BOOLEAN : LoadDone(p, ok)
    \/ \E p \in Procs, ok \in BOOLEAN : CountedGetTree(p, ok)
    \/ \E p \in Procs, q \in Positions, ok \in BOOLEAN : getContext(p, q, ok)
    \/ \E p \in Procs : Return(p)

SpecParse == InitParse /\ [][NextParse]_vars

\* The copy command, one invocation at a time in slot p1: the user triggers
\* a copy, and the next one after it has ended.
CopySlot == "p1"

SeqCopyCommand(p, hasEditor, d, sel) ==
    AllIdle /\ p = CopySlot /\ CopyCommand(p, hasEditor, d, sel)

CopyStep(p) ==
    \/ \E g \in GitLookups, ok \in BOOLEAN : GitDone(p, g, ok)
    \/ CopyContext(p)
    \/ \E ok \in BOOLEAN : InitDone(p, ok)
    \/ \E ok \in BOOLEAN : LoadDone(p, ok)
    \/ \E ok \in BOOLEAN : getTree(p, ok)
    \/ \E q \in Positions, ok \in BOOLEAN : getContext(p, q, ok)
    \/ \E st \in SettingsChoices : CopyWrite(p, st)
    \/ \E ok \in BOOLEAN : ClipDone(p, ok)

NextCopy ==
    \/ \E p \in Procs, hasEditor \in BOOLEAN, d \in Docs, sel \in Selections :
          SeqCopyCommand(p, hasEditor, d, sel)
    \/ \E p \in Procs : CopyStep(p)

CopySpec == Init /\ [][NextCopy]_vars

\* Every started git command, engine load and clipboard write settles, and the
\* event loop runs every continuation that is ready.
FairCopySpec == CopySpec /\ WF_vars(\E p \in Procs : CopyStep(p))

\* ------------------------------------------- the functions on their own
\* The file paths inferRustModuleFromPath is applied to: up to MaxSegments
\* segments, joined with '/' or with '\', relative, absolute or on a drive.
PathSegments ==
    { <<"s", "r", "c">>, <<"a">>, <<"b", ".", "r", "s">>,
      <<"m", "o", "d", ".", "r", "s">>, <<"l", "i", "b", ".", "r", "s">>,
      <<"m", "a", "i", "n", ".", "r", "s">> }

PathLeads == {"relative", "absolute", "drive"}

PathText(lead, sep, segs) ==
    (CASE lead = "relative" -> <<>>
       [] lead = "absolute" -> <<sep>>
       [] OTHER -> <<"C", ":", sep>>) \o Join(segs, <<sep>>)

PathArgs ==
    { [kind |-> "path", lead |-> lead, sep |-> sep, segs |-> segs,
       fileName |-> PathText(lead, sep, segs)] :
         lead \in PathLeads, sep \in {"/", "\\"},
         segs \in UNION {[1..n -> PathSegments] : n \in 1..MaxSegments} }

InitPath == InitProgram /\ arg \in PathArgs /\ out = NoOut

\* The fallback is applied to the path.
InferModule ==
    /\ arg.kind = "path"
    /\ ~out.done
    /\ out' = [done |-> TRUE, value |-> inferRustModuleFromPath(arg.fileName)]
    /\ UNCHANGED <<progVars, arg>>

NextPath == InferModule

PathSpec == InitPath /\ [][NextPath]_vars

\* The ancestor chains extractContextFromNodeChain is applied to: up to
\* MaxDepth declarations nested in one another under the source_file node,
\* outermost first, with the cursor in the innermost one.
\*   mod a / mod b / mod c, a mod_item without a name field, fn f / fn g,
\*   impl T<U>, struct S<V>, an enum without a name field (child E).
ChainKinds ==
    {"mod_a", "mod_b", "mod_c", "mod_anon", "fn_f", "fn_g", "impl_TU",
     "struct_S", "enum_kid"}

KindNode(k, parent) ==
    CASE k = "mod_a"    -> Node("mod_item", parent, <<"a">>, Absent, <<>>)
      [] k = "mod_b"    -> Node("mod_item", parent, <<"b">>, Absent, <<>>)
      [] k = "mod_c"    -> Node("mod_item", parent, <<"c">>, Absent, <<>>)
      [] k = "mod_anon" -> Node("mod_item", parent, Absent, Absent, <<>>)
      [] k = "fn_f"     -> Node("function_item", parent, <<"f">>, Absent, <<>>)
      [] k = "fn_g"     -> Node("function_item", parent, <<"g">>, Absent, <<>>)
      [] k = "impl_TU"  -> Node("impl_item", parent, Absent,
                                <<"T", "<", "U", ">">>, <<>>)
      [] k = "struct_S" -> Node("struct_item", parent, <<"S">>, Absent,
                                <<[type |-> "type_parameters",
                                   text |-> <<"<", "V", ">">>]>>)
      [] OTHER          -> Node("enum_item", parent, Absent, Absent,
                                <<[type |-> "visibility_modifier",
                                   text |-> <<"p", "u", "b">>],
                                  [type |-> "type_identifier",
                                   text |-> <<"E">>]>>)

IsFnKind(k) == k \in {"fn_f", "fn_g"}

\* The nodes of a chain: node 1 is the source_file, node i + 1 is the i-th
\* declaration and has node i as its parent.  With 'sibling', the innermost
\* function has an earlier sibling function e in the same parent.
ChainTree(kinds, sibling) ==
    LET chain == <<Node("source_file", 0, Absent, Absent, <<>>)>>
                 \o [i \in 1..Len(kinds) |-> KindNode(kinds[i], i)]
        fns == {i \in 1..Len(kinds) : IsFnKind(kinds[i])}
    IN  IF sibling /\ fns # {}
        THEN Append(chain, Node("function_item", Max(fns), <<"e">>, Absent, <<>>))
        ELSE chain

RustDocs == {d \in Docs : languageId(d) = "rust"}

ChainArgs ==
    { [kind |-> "chain", d |-> d, kinds |-> kinds, sibling |-> sibling,
       nodes |-> ChainTree(kinds, sibling), at |-> Len(kinds) + 1] :
         d \in RustDocs, sibling \in BOOLEAN,
         kinds \in UNION {[1..n -> ChainKinds] : n \in 0..MaxDepth} }

\* The names buildResult is applied to: absent, empty, plain and qualified.
NameArgs ==
    { [kind |-> "names", d |-> d, functionName |-> f, typeName |-> t,
       modulePath |-> m] :
         d \in RustDocs,
         f \in {Absent, <<>>, <<"f">>, <<"A", ":", ":", "f">>},
         t \in {Absent, <<>>, <<"T">>},
         m \in {Absent, <<"m">>} }

InitExtract == InitProgram /\ arg \in ChainArgs \cup NameArgs /\ out = NoOut

\* The tail of getContext: the chain above the cursor node is walked and the
\* result is built.
ExtractContext ==
    /\ arg.kind = "chain"
    /\ ~out.done
    /\ LET c == extractContextFromNodeChain(arg.nodes, arg.at)
       IN  out' = [done |-> TRUE, raw |-> c.rawNodes, modulePath |-> c.modulePath,
                   typeName |-> c.typeName,
                   value |-> buildResult(arg.d, c.functionName, c.typeName,
                                         c.modulePath, c.rawNodes)]
    /\ UNCHANGED <<progVars, arg>>

\* buildResult on given names.
ComposeResult ==
    /\ arg.kind = "names"
    /\ ~out.done
    /\ out' = [done |-> TRUE,
               value |-> buildResult(arg.d, arg.functionName, arg.typeName,
                                     arg.modulePath, NoRawNodes)]
    /\ UNCHANGED <<progVars, arg>>

NextExtract == ExtractContext \/ ComposeResult

ExtractSpec == InitExtract /\ [][NextExtract]_vars

\* =============================================================== claims
\* The step in which request p runs getTree's synchronous part.
GetTreeStepOf(p) == pc[p] = "ensured" /\ pc'[p] # "ensured"

\* ------------------------------------------------------------------ C1
\* One entry per key, and each entry (key, r, t) has t = the parse of the text
\* the document had at revision r.
CacheEntriesSound ==
    /\ \A e1, e2 \in treeCache : e1.key = e2.key => e1 = e2
    /\ \A e \in treeCache :
          /\ e.key \in Docs
          /\ e.version \in 1..version[e.key]
          /\ e.tree = Parse(textAt[e.key][e.version])

\* getTree answers from the cache's entry exactly when the entry's revision is
\* the document's current one, and then with that entry's tree.
EntryUsedIffCurrent ==
    \A p \in Procs :
       GetTreeStepOf(p) =>
          LET e == MapGet(treeCache, doc[p])
              current == e # NoEntry /\ e.version = version[doc[p]]
              used == pc'[p] = "tree" /\ ~parsed'[p]
          IN  /\ current <=> used
              /\ used => e # NoEntry /\ tree'[p] = e.tree

\* C1: in every reachable state the tree cache has at most one entry per
\* document key, an entry (key, r, t) holds the tree of the text the document
\* had at revision r, and an entry answers a request if and only if its
\* revision is the document's current revision.
C1_CacheInvariant == []CacheEntriesSound /\ [][EntryUsedIffCurrent]_vars

\* A request is about to run getTree on a document that was edited after its
\* entry was cached.
C1_Witness ==
    \E p \in Procs, e \in treeCache :
       /\ pc[p] = "ensured"
       /\ doc[p] = e.key
       /\ e.version < version[e.key]

\* ------------------------------------------------------------------ C2
\* C2: when getTree runs for a document whose previous getTree call returned
\* a tree at the revision the document still has, it returns that same tree
\* and does not call the parser (nor touch the cache).
C2_IdempotentCaching ==
    [][\A p \in Procs :
          (/\ GetTreeStepOf(p)
           /\ lastTree[doc[p]].version = version[doc[p]]
           /\ lastTree[doc[p]].tree # NoTree) =>
             /\ pc'[p] = "tree"
             /\ tree'[p] = lastTree[doc[p]].tree
             /\ ~parsed'[p]
             /\ treeCache' = treeCache]_vars

\* A second getTree call at the same revision has returned without parsing.
C2_Witness ==
    \E p \in Procs :
       /\ pc[p] = "tree"
       /\ ~parsed[p]
       /\ lastTree[doc[p]].version = version[doc[p]]
       /\ lastTree[doc[p]].tree # NoTree
       /\ tree[p] = lastTree[doc[p]].tree

\* ------------------------------------------------------------------ C3
\* getTree runs for a document edited since its entry was cached.
StaleGetTree(p) ==
    /\ GetTreeStepOf(p)
    /\ \E e \in treeCache : e.key = doc[p] /\ e.version < version[doc[p]]

\* The entry getTree stores for the current revision of p's document.
FreshEntry(p) ==
    [key |-> doc[p], version |-> version[doc[p]], tree |-> Parse(text[doc[p]])]

\* C3 as stated: after a revision change the next getTree call parses the
\* current text, overwrites the key's entry with (key, new revision, new tree)
\* and returns the new tree.
C3_AlwaysOverwrites ==
    [][\A p \in Procs :
          StaleGetTree(p) =>
             /\ parsed'[p]
             /\ {e \in treeCache' : e.key = doc[p]} = {FreshEntry(p)}
             /\ pc'[p] = "tree"
             /\ tree'[p] = Parse(text[doc[p]])]_vars

\* C3, amended: after a revision change the next getTree call calls the
\* parser on the current text and never answers from the stale entry; when
\* the parse returns, the key's entry is overwritten with (key, new revision,
\* new tree) and the new tree is returned; when the parse throws, the cache
\* keeps the prior entry and the request resolves to the fallback.
C3_OverwritesUnlessParseThrows ==
    [][\A p \in Procs :
          StaleGetTree(p) =>
             /\ parsed'[p]
             /\ \/ /\ pc'[p] = "tree"
                   /\ tree'[p] = Parse(text[doc[p]])
                   /\ {e \in treeCache' : e.key = doc[p]} = {FreshEntry(p)}
                \/ /\ pc'[p] = "ctx"
                   /\ fault'[p] = "parse"
                   /\ treeCache' = treeCache]_vars

\* Request q got the tree of revision 1, which was cached; the document was
\* edited; request p then parsed the new text and overwrote the entry.
C3_Witness ==
    \E p, q \in Procs :
       /\ p # q
       /\ doc[p] = doc[q]
       /\ pc[q] = "tree"
       /\ tree[q] = Parse(textAt[doc[q]][1])
       /\ pc[p] = "tree"
       /\ parsed[p]
       /\ version[doc[p]] > 1
       /\ tree[p] = Parse(text[doc[p]])
       /\ tree[p] # tree[q]
       /\ {e \in treeCache : e.key = doc[p]} = {FreshEntry(p)}

\* ------------------------------------------------------------------ C4
\* The requests suspended in Parser.init() / in Parser.Language.load().
Bootstrapping == {p \in Procs : pc[p] = "init"}
Loading == {p \in Procs : pc[p] = "load"}

\* C4 as stated: concurrent first-use requests do not double-initialize: no
\* two requests are inside the engine bootstrap at once, no two are inside
\* the grammar load at once, and new Parser() runs at most once.
C4_InitializedOnce ==
    /\ Cardinality(Bootstrapping) <= 1
    /\ Cardinality(Loading) <= 1
    /\ parser <= 1

\* ------------------------------------------------------------------ C5
\* ensureParser has completed successfully: parser set and grammar loaded.
Initialized == parser # NoParser /\ languageLoaded

\* C5: with requests one after the other, once a request has completed
\* ensureParser successfully, no later step calls Parser.init or the grammar
\* load or replaces the parser, and every later Rust request leaves
\* ensureParser at once with that same parser instance.
C5_SequentialInitIdempotent ==
    [][Initialized =>
          /\ initCalls' = initCalls
          /\ loadCalls' = loadCalls
          /\ parser' = parser
          /\ languageLoaded'
          /\ \A p \in Procs :
                (pc[p] = "idle" /\ pc'[p] # "idle" /\ languageId(doc'[p]) = "rust")
                   => pc'[p] = "ensured" /\ lparser'[p] = parser]_vars

\* A second request went through ensureParser after the first initialized.
C5_Witness ==
    \E p \in Procs :
       /\ pc[p] = "ensured"
       /\ invocations = 2
       /\ initCalls = 1
       /\ loadCalls = 1
       /\ lparser[p] = parser
       /\ parser \in hasLanguage

\* ------------------------------------------------------------------ C6
\* C6 as stated: after a grammar load has failed, no request is inside a
\* grammar load again, and every Rust request that resolves has the fallback
\* result.
C6_LoadFailurePermanent ==
    loadFailed =>
       /\ Loading = {}
       /\ \A p \in Procs :
             (pc[p] = "ctx" /\ languageId(doc[p]) = "rust")
                => info[p] = FallbackContext(doc[p])

\* ------------------------------------------------------------------ C7
\* C7: whatever fault the Rust pipeline raised (engine bootstrap, grammar
\* load, parse, node lookup or extraction), the request has resolved, and to a
\* ContextInfo with functionName and className absent and moduleName the
\* path-based module of the document's file name.
C7_FaultsDegradeToFallback ==
    \A p \in Procs :
       fault[p] # "none" =>
          /\ fault[p] \in {"init", "load", "parse", "extract"}
          /\ pc[p] \in {"ctx", "clip"}
          /\ info[p].functionName = Absent
          /\ info[p].className = Absent
          /\ info[p].moduleName = inferRustModuleFromPath(fileName(doc[p]))

\* A failed grammar load on /src/a/b.rs resolved to module a::b, while the
\* parse of another request threw.
C7_Witness ==
    \E p, q \in Procs :
       /\ fault[p] = "load"
       /\ doc[p] = "d1"
       /\ info[p].functionName = Absent
       /\ info[p].moduleName = <<"a", ":", ":", "b">>
       /\ fault[q] = "parse"
       /\ pc[q] = "ctx"

\* ------------------------------------------------------------------ C8
\* C8: when the parse of a document at revision r throws, the request
\* resolves to the fallback, the cache is unchanged and holds no entry for
\* revision r; and the getTree call that follows a thrown one at the same
\* revision of the same document calls the parser again.
C8_ParseFailureRequestScoped ==
    [][\A p \in Procs :
          /\ (GetTreeStepOf(p) /\ fault'[p] = "parse") =>
                /\ parsed'[p]
                /\ pc'[p] = "ctx"
                /\ info'[p] = FallbackContext(doc[p])
                /\ treeCache' = treeCache
                /\ {e \in treeCache' : e.key = doc[p] /\ e.version = version[doc[p]]} = {}
          /\ (/\ GetTreeStepOf(p)
              /\ lastTree[doc[p]].version = version[doc[p]]
              /\ lastTree[doc[p]].tree = NoTree) => parsed'[p]]_vars

\* A request is retrying the parse of a revision whose parse threw before.
C8_Witness ==
    \E p \in Procs :
       /\ pc[p] = "tree"
       /\ parsed[p]
       /\ version[doc[p]] = 1
       /\ lastTree[doc[p]] = [version |-> 1, tree |-> tree[p]]
       /\ \E q \in Procs : q # p /\ doc[q] = doc[p] /\ fault[q] = "parse"

\* ------------------------------------------------------------------ C9
\* A copy invocation that found an active editor and has not yet called
\* clipboard.writeText.
CopyPending(p) == caller[p] = "copy" /\ pc[p] \notin {"idle", "clip"}

\* C9 as stated: every invocation of the command performs a clipboard write,
\* so whenever no invocation is in progress there are as many writes as
\* invocations.
C9_EveryInvocationWrites == AllIdle => clipWrites = invocations

\* C9, amended: every invocation that finds an active editor eventually calls
\* clipboard.writeText with an output, whatever became of the git commands
\* and of the structural context; the handler never ends before that call.
C9_CopyWithEditorWrites ==
    /\ CopyPending(CopySlot) ~> (pc[CopySlot] = "clip" /\ output[CopySlot] # NoOutput)
    /\ [][\A p \in Procs :
             /\ (pc[p] # "idle" /\ pc'[p] = "idle") => pc[p] = "clip"
             /\ (pc[p] # "clip" /\ pc'[p] = "clip") => clipWrites' = clipWrites + 1]_vars

\* The write was called although every git command failed and the parse threw.
C9_Witness ==
    /\ pc[CopySlot] = "clip"
    /\ gitFailed[CopySlot] = GitLookups
    /\ fault[CopySlot] = "parse"
    /\ output[CopySlot] # NoOutput
    /\ clipWrites = 1

\* ----------------------------------------------------------------- C10
\* C10: a request for a document whose language id is not 'rust' never
\* enters the Rust pipeline and resolves to a ContextInfo with functionName,
\* className, moduleName and extra all absent, with no fault.
C10_UnsupportedLanguageEmpty ==
    \A p \in Procs :
       (doc[p] # NoDoc /\ languageId(doc[p]) # "rust") =>
          /\ pc[p] \in {"git", "ctx", "clip"}
          /\ fault[p] = "none"
          /\ ~parsed[p]
          /\ pc[p] = "ctx" =>
                /\ info[p].functionName = Absent
                /\ info[p].className = Absent
                /\ info[p].moduleName = Absent
                /\ info[p].extra = NoExtra

\* A request for the Python document has resolved.
C10_Witness ==
    \E p \in Procs :
       /\ pc[p] = "ctx"
       /\ languageId(doc[p]) = "python"
       /\ info[p] = EmptyContext

\* ---------------------------------------------------------------- C15
RootFiles == { <<"l", "i", "b", ".", "r", "s">>, <<"m", "a", "i", "n", ".", "r", "s">> }

IsSrcSegment(seg) == seg = <<"s", "r", "c">>

FileSegment(a) == a.segs[Len(a.segs)]

\* The file sits directly in the directory named by the last 'src' segment.
DirectlyUnderSrc(a) ==
    Len(a.segs) >= 2 /\ IsSrcSegment(a.segs[Len(a.segs) - 1])

PathInferred == arg.kind = "path" /\ out.done

\* C15 as stated: every path whose file name is lib.rs or main.rs gives an
\* absent module, whatever the directories before or after the 'src' marker.
C15_RootFilesAlwaysAbsent ==
    (PathInferred /\ FileSegment(arg) \in RootFiles) => out.value = Absent

\* C15, amended: a lib.rs or main.rs that sits directly under the last 'src'
\* directory gives an absent module, however many directories precede the
\* marker and whichever separator the path uses.
C15_RootFilesDirectlyUnderSrcAbsent ==
    (PathInferred /\ FileSegment(arg) \in RootFiles /\ DirectlyUnderSrc(arg))
        => out.value = Absent

\* A root file two directories deep, with the marker matched in the path.
C15_Witness ==
    /\ PathInferred
    /\ FileSegment(arg) \in RootFiles
    /\ DirectlyUnderSrc(arg)
    /\ Len(arg.segs) = 3
    /\ ~IsSrcSegment(arg.segs[1])
    /\ arg.lead = "absolute"
    /\ out.value = Absent

\* ---------------------------------------------------------------- C16
StripRs(seg) ==
    IF Len(seg) >= 3 /\ SubSeq(seg, Len(seg) - 2, Len(seg)) = <<".", "r", "s">>
    THEN SubSeq(seg, 1, Len(seg) - 3) ELSE seg

\* The module the stated rule gives for a path of the given segments.
ModuleOfSegments(segs) ==
    LET marks == {i \in 1..Len(segs) : IsSrcSegment(segs[i])}
    IN  IF marks = {} THEN Absent
        ELSE LET last == CHOOSE i \in marks : \A j \in marks : j <= i
                 rest == SubSeq(segs, last + 1, Len(segs))
                 stems == [i \in 1..Len(rest) |->
                             IF i = Len(rest) THEN StripRs(rest[i]) ELSE rest[i]]
                 kept == IF stems # <<>> /\ stems[Len(stems)] = <<"m", "o", "d">>
                         THEN SubSeq(stems, 1, Len(stems) - 1) ELSE stems
             IN  IF stems \in { <<StripRs(f)>> : f \in RootFiles } \/ kept = <<>>
                 THEN Absent
                 ELSE Join(kept, <<":", ":">>)

\* C16: for every path, absolute or relative, with either separator, the
\* fallback gives absent when no segment is the 'src' marker and otherwise the
\* segments after the last marker, '.rs' stripped, a trailing 'mod' dropped,
\* joined with '::'.
C16_ModuleFromPathSegments ==
    PathInferred => out.value = ModuleOfSegments(arg.segs)

\* The relative path src/a/mod.rs has been given to the fallback.
C16_RelativeModFile ==
    /\ PathInferred
    /\ arg.lead = "relative"
    /\ arg.segs = << <<"s", "r", "c">>, <<"a">>, <<"m", "o", "d", ".", "r", "s">> >>

\* ---------------------------------------------------------------- C11
ChainExtracted == arg.kind = "chain" /\ out.done

ModKinds == {"mod_a", "mod_b", "mod_c", "mod_anon"}

\* The declared names of the named modules of a chain, outermost first.
DeclaredModNames(kinds) ==
    LET named == SelectSeq(kinds, LAMBDA k : k \in {"mod_a", "mod_b", "mod_c"})
    IN  [i \in 1..Len(named) |->
            CASE named[i] = "mod_a" -> <<"a">>
              [] named[i] = "mod_b" -> <<"b">>
              [] OTHER -> <<"c">>]

TreeModulePath(kinds) ==
    IF DeclaredModNames(kinds) = <<>> THEN Absent
    ELSE Join(DeclaredModNames(kinds), <<":", ":">>)

EnclosingMods(kinds) == {i \in 1..Len(kinds) : kinds[i] \in ModKinds}

\* C11: with no enclosing module declaration moduleName is the path fallback;
\* with at least one enclosing module declaration, named or not, moduleName
\* is what the tree gives and the path fallback is not used.
C11_FallbackOnlyWithoutModules ==
    ChainExtracted =>
        IF EnclosingMods(arg.kinds) = {}
        THEN out.value.moduleName = inferRustModuleFromPath(fileName(arg.d))
        ELSE out.value.moduleName = TreeModulePath(arg.kinds)

\* The cursor is inside one module declaration without a name, in /src/a/b.rs.
C11_NamelessModule ==
    /\ ChainExtracted
    /\ arg.kinds = <<"mod_anon">>
    /\ arg.d = "d1"

\* ---------------------------------------------------------------- C12
\* The innermost node of the chain whose kind is in S.
InnermostOf(a, S) ==
    LET hits == {i \in 1..Len(a.kinds) : a.kinds[i] \in S}
    IN  IF hits = {} THEN NoNode
        ELSE a.nodes[1 + (CHOOSE i \in hits : \A j \in hits : j <= i)]

FnKinds == {"fn_f", "fn_g"}
ImplKinds == {"impl_TU"}
TypeKinds == {"struct_S", "enum_kid"}

\* C12: the recorded function, impl and type nodes are the innermost ones of
\* the chain, and functionName ends with the innermost function's name.
C12_InnermostWins ==
    ChainExtracted =>
        /\ out.raw.fnNode = InnermostOf(arg, FnKinds)
        /\ out.raw.implNode = InnermostOf(arg, ImplKinds)
        /\ out.raw.typeNode = InnermostOf(arg, TypeKinds)
        /\ InnermostOf(arg, FnKinds) # NoNode =>
              LET fn == out.value.functionName
                  name == InnermostOf(arg, FnKinds).name
              IN  SubSeq(fn, Len(fn) - Len(name) + 1, Len(fn)) = name

\* The cursor is in g, the second of two functions of a type, one level of
\* nesting between the type and the functions.
C12_Witness ==
    /\ ChainExtracted
    /\ arg.sibling
    /\ Len(arg.kinds) = 3
    /\ arg.kinds[1] = "impl_TU"
    /\ arg.kinds[3] = "fn_g"
    /\ out.value.functionName = <<"T", ":", ":", "g">>
    /\ out.value.className = <<"T">>

\* ---------------------------------------------------------------- C13
RECURSIVE Reversed(_)
Reversed(q) == IF q = <<>> THEN <<>> ELSE Append(Reversed(Tail(q)), Head(q))

\* C13: the module nodes are recorded innermost first, the AST-derived path
\* is their declared names outermost first joined with '::' (nameless ones
\* skipped, absent when none is named), and it is the moduleName when present.
C13_ModulePathOrdering ==
    ChainExtracted =>
        /\ out.raw.modNodes =
             Reversed(SelectSeq(arg.nodes, LAMBDA n : n.type = "mod_item"))
        /\ out.modulePath = TreeModulePath(arg.kinds)
        /\ out.modulePath # Absent => out.value.moduleName = out.modulePath

\* Three nested modules a, b, c give a::b::c.
C13_Witness ==
    /\ ChainExtracted
    /\ arg.kinds = <<"mod_a", "mod_b", "mod_c">>
    /\ out.value.moduleName = <<"a", ":", ":", "b", ":", ":", "c">>

\* ---------------------------------------------------------------- C14
NamesComposed == arg.kind = "names" /\ out.done

Resolves(name) == name # Absent /\ Len(name) > 0

Qualified(name) ==
    \E i \in 1..(Len(name) - 1) : name[i] = ":" /\ name[i + 1] = ":"

\* C14: a resolved type and a resolved unqualified function name give
\* Type::name; an unresolved type or a qualified function name leave the raw
\* name; className is always the type name itself.
C14_QualificationRule ==
    /\ NamesComposed =>
        /\ (Resolves(arg.functionName) /\ Resolves(arg.typeName)
              /\ ~Qualified(arg.functionName)) =>
             out.value.functionName =
                arg.typeName \o <<":", ":">> \o arg.functionName
        /\ (~Resolves(arg.typeName)
              \/ (arg.functionName # Absent /\ Qualified(arg.functionName))) =>
             out.value.functionName = arg.functionName
        /\ out.value.className = arg.typeName
    /\ ChainExtracted => out.value.className = out.typeName

\* A type T and a function f have been composed to T::f, and a qualified
\* name is possible as well.
C14_Witness ==
    /\ NamesComposed
    /\ arg.functionName = <<"f">>
    /\ arg.typeName = <<"T">>
    /\ out.value.functionName = <<"T", ":", ":", "f">>
    /\ out.value.className = <<"T">>

\* ---------------------------------------------------------------- C17
\* The declared text of a type-bearing node of the chain.
DeclaredTypeText(k) ==
    CASE k = "impl_TU" -> <<"T", "<", "U", ">">>
      [] k = "struct_S" -> <<"S", "<", "V", ">">>
      [] OTHER -> <<"E">>

BeforeAngle(t) ==
    LET angles == {i \in 1..Len(t) : t[i] = "<"}
    IN  IF angles = {} THEN t
        ELSE SubSeq(t, 1, (CHOOSE i \in angles : \A j \in angles : i <= j) - 1)

InnermostKind(kinds, S) ==
    LET hits == {i \in 1..Len(kinds) : kinds[i] \in S}
    IN  kinds[CHOOSE i \in hits : \A j \in hits : j <= i]

\* C17: the type name is the text before the first '<' of the innermost impl
\* block's subject type when an impl block encloses the cursor, otherwise of
\* the innermost type declaration (its name, or its first type-identifier
\* child), otherwise absent; className is that name.
C17_GenericStripping ==
    ChainExtracted =>
        /\ out.typeName =
             IF \E i \in 1..Len(arg.kinds) : arg.kinds[i] \in ImplKinds
             THEN BeforeAngle(DeclaredTypeText(InnermostKind(arg.kinds, ImplKinds)))
             ELSE IF \E i \in 1..Len(arg.kinds) : arg.kinds[i] \in TypeKinds
             THEN BeforeAngle(DeclaredTypeText(InnermostKind(arg.kinds, TypeKinds)))
             ELSE Absent
        /\ out.value.className = out.typeName

\* An impl block and a type declaration both enclose the cursor, the type
\* declaration innermost, and the impl block's stripped subject type is used.
C17_Witness ==
    /\ ChainExtracted
    /\ arg.kinds = <<"impl_TU", "fn_f", "struct_S">>
    /\ out.value.className = <<"T">>

\* ---------------------------------------------------------------- C18
\* The text and the 1-based range the copy of a selection is to carry.
TextToCopy(d, sel) ==
    IF sel.isEmpty THEN [of |-> text[d], from |-> -1, to |-> -1]
    ELSE [of |-> text[d], from |-> sel.startLine, to |-> sel.endLine]

RangeToAnnotate(d, sel) ==
    IF sel.isEmpty
    THEN <<ToString(1), "-", ToString(IF text[d] = "T1" THEN 3 ELSE 2)>>
    ELSE <<ToString(sel.startLine + 1), "-", ToString(sel.endLine + 1)>>

LinesHeaders(o) ==
    {i \in 1..Len(o.headers) : o.headers[i][1] = "lines"}

Configured(st, id) ==
    \E i \in 1..Len(st.filePathHeaderIds) : st.filePathHeaderIds[i] = id

Written(p) == pc[p] = "clip" /\ caller[p] = "copy"

C19_TreeNotNewerThanRequest ==
    [][\A p \in Procs :
          (GetTreeStepOf(p) /\ pc'[p] = "tree") =>
              /\ lastTree'[doc[p]].tree = tree'[p]
              /\ lastTree'[doc[p]].version <= requestedAt[p]]_vars

\* A request made at revision 1 holds the tree of revision 2.
C19_NewerTreeObserved ==
    \E p \in Procs :
        /\ pc[p] = "tree"
        /\ requestedAt[p] = 1
        /\ lastTree[doc[p]] = [version |-> 2, tree |-> tree[p]]
        /\ version[doc[p]] = 2

\* ---------------------------------------------------------------- C20
\* C20: whenever languageLoaded is true the stored parser exists and has had
\* setLanguage called, and the parser ensureParser returns has a grammar.
C20_LoadedParserHasLanguage ==
    /\ languageLoaded => (parser # NoParser /\ parser \in hasLanguage)
    /\ \A p \in Procs : pc[p] = "ensured" => lparser[p] \in hasLanguage

\* languageLoaded is true, the stored parser is a second instance that never
\* had setLanguage called, and ensureParser has returned it to a request.
C20_ParserWithoutLanguage ==
    \E p \in Procs :
        /\ languageLoaded
        /\ parser = 2
        /\ parser \notin hasLanguage
        /\ pc[p] = "ensured"
        /\ lparser[p] = parser

\* ---------------------------------------------------------------- C21
\* C21: under every interleaving of requests and edits, no revision of a
\* document is parsed into a tree twice.
C21_ParsedOncePerRevision ==
    /\ ~arg.repeated
    /\ \A d \in Docs :
          arg.lastParsed[d] # 0 =>
              /\ MapGet(treeCache, d) # NoEntry
              /\ MapGet(treeCache, d).version = arg.lastParsed[d]

\* Two requests for the same document at the same revision are in flight;
\* one parsed and the other was answered from the cache with the same tree.
C21_Witness ==
    \E p, q \in Procs :
        /\ pc[p] = "tree" /\ pc[q] = "tree"
        /\ doc[p] = doc[q]
        /\ parsed[p] /\ ~parsed[q]
        /\ tree[p] = tree[q]
        /\ arg.lastParsed[doc[p]] = version[doc[p]]
        /\ MapGet(treeCache, doc[p]).version = version[doc[p]]

\* ---------------------------------------------------------------- C22
\* C22: a key that has a cache entry keeps one in every later state, and the
\* revision stored for a key never decreases.
C22_EntriesKeptAndMonotonic ==
    [][\A d \in Docs :
          MapGet(treeCache, d) # NoEntry =>
              /\ MapGet(treeCache', d) # NoEntry
              /\ MapGet(treeCache', d).version >= MapGet(treeCache, d).version]_vars

\* One document has an entry of revision 2 while another document,
\* edited since its last request, still has its entry of revision 1.
C22_Witness ==
    \E d, e \in Docs :
        /\ d # e
        /\ MapGet(treeCache, d) # NoEntry
        /\ MapGet(treeCache, d).version = 2
        /\ Len(textAt[d]) = 2
        /\ MapGet(treeCache, e) # NoEntry
        /\ MapGet(treeCache, e).version = 1
        /\ version[e] = 2

\* ---------------------------------------------------------------- C23
\* C23: an invocation of the copy command without an active editor shows
\* 'No active editor' and ends there: no git command is started, no context
\* is requested, nothing is written to the clipboard, and the success
\* notification is not shown.
C23_NoEditorEndsAction ==
    [][\A p \in Procs, d \in Docs, sel \in Selections :
          CopyCommand(p, FALSE, d, sel) =>
              /\ notice'[p] = "No active editor"
              /\ pc'[p] = "idle" /\ caller'[p] = "none"
              /\ gitPending'[p] = {}
              /\ initCalls' = initCalls /\ loadCalls' = loadCalls
              /\ treeCache' = treeCache
              /\ clipWrites' = clipWrites /\ clipboard' = clipboard
              /\ output' = output]_vars

\* The command has been invoked once, without an editor: the error is shown,
\* and nothing has been started or written.
C23_Witness ==
    /\ invocations = 1
    /\ notice[CopySlot] = "No active editor"
    /\ AllIdle
    /\ gitPending[CopySlot] = {}
    /\ initCalls = 0
    /\ clipWrites = 0
    /\ clipboard = NoOutput

\* ---------------------------------------------------------------- C24
\* The stage of a copy action: the git lookups, the context request, the
\* clipboard write.
Stage(p) ==
    CASE pc[p] = "idle" -> 0
      [] pc[p] = "git" -> 1
      [] pc[p] \in {"init", "load", "ensured", "tree"} -> 2
      [] pc[p] = "ctx" -> 3
      [] OTHER -> 4

StageAfter(p) ==
    CASE pc'[p] = "idle" -> 0
      [] pc'[p] = "git" -> 1
      [] pc'[p] \in {"init", "load", "ensured", "tree"} -> 2
      [] pc'[p] = "ctx" -> 3
      [] OTHER -> 4

Copied == "Copied code with context!"

\* C24: in a copy action with an editor the context request starts only when
\* all five git lookups have completed, the clipboard write starts only when
\* the context request has completed, the write is called once on the way and
\* the action ends only after it, and the success notification appears only
\* when the write has completed, never when it failed.
C24_FixedOrder ==
    /\ [][\A p \in Procs : caller[p] = "copy" =>
             /\ (Stage(p) = 1 /\ StageAfter(p) # 1) =>
                   (gitPending[p] = {} /\ StageAfter(p) \in {2, 3})
             /\ (Stage(p) = 2 /\ StageAfter(p) # 2) => StageAfter(p) = 3
             /\ (Stage(p) = 3 /\ StageAfter(p) # 3) => StageAfter(p) = 4
             /\ (Stage(p) = 4 /\ StageAfter(p) # 4) => StageAfter(p) = 0
             /\ (clipWrites' # clipWrites) <=>
                   (\E r \in Procs : pc[r] = "ctx" /\ pc'[r] = "clip")
             /\ (clipWrites' # clipWrites) => clipWrites' = clipWrites + 1
             /\ (notice'[p] = Copied /\ notice[p] # Copied) =>
                   (pc[p] = "clip" /\ pc'[p] = "idle" /\ clipboard' = output[p])
             /\ ClipDone(p, FALSE) => notice'[p] # Copied]_vars
    /\ (pc[CopySlot] = "git") ~> (pc[CopySlot] = "clip")

\* A copy action has run to its end: one write, the text on the clipboard and
\* the notification shown.
C24_Witness ==
    /\ AllIdle
    /\ invocations = 1
    /\ clipWrites = 1
    /\ clipboard # NoOutput
    /\ notice[CopySlot] = Copied

====
